---- MODULE Spec2Model ----
(***************************************************************************)
(* The windowed decoding loop of faster_whisper/transcribe.py:             *)
(* WhisperModel.transcribe, generate_segments (a generator),               *)
(* generate_with_fallback and get_prompt.                                  *)
(*                                                                         *)
(* Units.  Probabilities, temperatures and compression ratio thresholds are *)
(* integers in tenths (0.6 is 6, 2.4 is 24); the program only compares     *)
(* them.  A compression ratio is the quotient of two lengths.  Log         *)
(* probabilities (scores, log_prob_threshold) are integers in eighths      *)
(* (-1.0 is -8, -0.5 is -4): every score and threshold of the model is     *)
(* exactly a double, so that the exact comparison of score * seq_len /     *)
(* (seq_len + 1) with a threshold is the comparison the program makes on   *)
(* doubles.  Times are integers in hundredths of a second, so that         *)
(* time_per_frame (0.01 s) is 1 and time_precision (0.02 s) is 2.          *)
(* An optional value (Python None or a value) is the empty sequence or a   *)
(* one-element sequence.                                                   *)
(***************************************************************************)
EXTENDS Integers, Sequences, FiniteSets

----------------------------------------------------------------------------
(* Bounds of the model *)

\* longest model output that is enumerated exhaustively
MaxLen == 1

\* windows decoded before the model stops exploring a run
MaxWindows == 2

\* longest model output of the single-window specification
WideLen == 4

\* FeatureExtractor.nb_max_frames (3000 in the program), scaled down
nb_max_frames == 4

\* WhisperModel.max_length (448 in the program), scaled down
max_length == 8

----------------------------------------------------------------------------
(* Program constants *)

input_stride == 2

\* 0.02 s, in hundredths of a second
time_precision == 2

\* FeatureExtractor.time_per_frame, 0.01 s, in hundredths of a second
time_per_frame == 1

\* Tokenizer: text tokens are below eot, then the special tokens, then the
\* timestamp tokens from timestamp_begin on.
eot == 4

sot == 5

sot_prev == 6

no_timestamps == 7

timestamp_begin == 8

sot_sequence == <<sot>>

----------------------------------------------------------------------------
(* Python helpers *)

None == <<>>

Some(x) == <<x>>

IsNone(o) == o = <<>>

Val(o) == o[1]

Min(a, b) == IF a < b THEN a ELSE b

Max(a, b) == IF a > b THEN a ELSE b

\* s[a:b] with 0 <= a, 0 <= b
Slice(s, a, b) == SubSeq(s, a + 1, Min(b, Len(s)))

\* s[-n:] with n > 0
LastN(s, n) == SubSeq(s, Max(Len(s) - n, 0) + 1, Len(s))

\* b ** e for integers b >= 0 and e, a rational (0 ** 0 is 1): with e < 0 it
\* is 1 / b ** -e, which Python raises ZeroDivisionError for when b is 0
Pow(b, e) ==
  LET RECURSIVE Times(_)
      Times(k) == IF k = 0 THEN 1 ELSE b * Times(k - 1)
  IN IF e >= 0 THEN [num |-> Times(e), den |-> 1]
     ELSE [num |-> 1, den |-> Times(-e)]

\* whether b ** e raises ZeroDivisionError
PowRaises(b, e) == b = 0 /\ e < 0

\* a rational num/den with den > 0, compared with an integer
RatGt(q, t) == q.num > t * q.den

RatLt(q, t) == q.num < t * q.den

\* two rationals compared
RatGtRat(q, r) == q.num * r.den > r.num * q.den

IsTimestamp(t) == t >= timestamp_begin

\* all sequences over S of length at most n
RECURSIVE SeqsUpTo(_, _)
SeqsUpTo(S, n) ==
  IF n = 0 THEN {<<>>}
  ELSE LET shorter == SeqsUpTo(S, n - 1)
       IN shorter \cup {Append(s, x) : s \in {t \in shorter : Len(t) = n - 1}, x \in S}

----------------------------------------------------------------------------
(* Tokenizer (faster_whisper/tokenizer.py).  A text is a sequence of          *)
(* characters; each text token stands for one character, token t for         *)
(* Vocabulary[t + 1].                                                        *)

Vocabulary == <<" ", "a", "b", "c">>

\* the token of a character
TokenOf(c) == (CHOOSE i \in 1..Len(Vocabulary) : Vocabulary[i] = c) - 1

\* Tokenizer.encode
encode(text) == [i \in 1..Len(text) |-> TokenOf(text[i])]

\* Tokenizer.decode drops the tokens from eot on
decode(tokens) ==
  LET text_tokens == SelectSeq(tokens, LAMBDA t : t < eot)
  IN [i \in 1..Len(text_tokens) |-> Vocabulary[text_tokens[i] + 1]]

\* str.strip
RECURSIVE lstrip(_)
lstrip(text) ==
  IF text # <<>> /\ Head(text) = " " THEN lstrip(Tail(text)) ELSE text

RECURSIVE rstrip(_)
rstrip(text) ==
  IF text # <<>> /\ text[Len(text)] = " "
  THEN rstrip(SubSeq(text, 1, Len(text) - 1)) ELSE text

strip(text) == rstrip(lstrip(text))

----------------------------------------------------------------------------
(* Inputs *)

\* the token of the word "a"
word == TokenOf("a")

\* the token of a whitespace
blank == TokenOf(" ")

\* tokens of the outputs enumerated exhaustively: a word and the timestamp 0.00
OutputTokens == {word, timestamp_begin}

\* longer outputs: a boundary at timestamp 0.00, a single timestamp at the
\* end without a boundary, boundaries inside the output with and without a
\* single timestamp at the end, and a whitespace-only chunk
LongOutputs ==
  { <<timestamp_begin, timestamp_begin>>,
    <<word, timestamp_begin + 1>>,
    <<timestamp_begin, word, timestamp_begin + 1, timestamp_begin + 1, word>>,
    <<timestamp_begin, word, timestamp_begin + 1, timestamp_begin + 1, word,
      timestamp_begin + 2>>,
    <<timestamp_begin, blank, timestamp_begin + 1, timestamp_begin + 1, word,
      timestamp_begin + 2, timestamp_begin + 2>> }

Outputs == SeqsUpTo(OutputTokens, MaxLen) \cup LongOutputs

\* every output up to WideLen tokens over a word and the timestamps 0.00,
\* 0.02 and 0.04
WideOutputs ==
  SeqsUpTo({word, timestamp_begin, timestamp_begin + 1, timestamp_begin + 2},
           WideLen)

\* result.scores[0]: -2.0 and -0.5
Scores == {-16, -4}

\* result.no_speech_prob
NoSpeechProbs == {6, 9}

\* the temperature argument of transcribe: a number or a list
TemperatureArgs ==
  { [islist |-> FALSE, scalar |-> 5, list |-> <<>>],
    [islist |-> TRUE, scalar |-> 0, list |-> <<>>],
    [islist |-> TRUE, scalar |-> 0, list |-> <<0, 6>>] }

\* features.shape[-1]: no content after the padding window, or 6 frames of it
FeatureFrames == {nb_max_frames, nb_max_frames + 6}

NoSpeechThresholds == {None, Some(6)}

\* None or -1.0
LogProbThresholds == {None, Some(-8)}

\* None or 0.1, which the ratio of a text of one character exceeds
CompressionRatioThresholds == {None, Some(1)}

InitialPrompts == {None, Some(<<"b">>)}

Prefixes == {None, Some(<<"c">>)}

\* TranscriptionOptions values the caller can pass: length_penalty is 1, or
\* a negative exponent
LengthPenalties == {1, -1}

----------------------------------------------------------------------------
(* transcribe: the options record *)

\* temperature if isinstance(temperature, (list, tuple)) else [temperature]
Temperatures(arg) == IF arg.islist THEN arg.list ELSE <<arg.scalar>>

TranscriptionOptions(lp, lpt, nst, crt, cond, temp, ip, pre, wt) ==
  [ length_penalty |-> lp,
    log_prob_threshold |-> lpt,
    no_speech_threshold |-> nst,
    compression_ratio_threshold |-> crt,
    condition_on_previous_text |-> cond,
    temperatures |-> Temperatures(temp),
    initial_prompt |-> ip,
    prefix |-> pre,
    without_timestamps |-> wt ]

NoOptions ==
  TranscriptionOptions(1, None, None, None, TRUE,
                       [islist |-> TRUE, scalar |-> 0, list |-> <<>>],
                       None, None, FALSE)

----------------------------------------------------------------------------
(* get_prompt *)

\* a prompt that keeps the oldest tokens of the context instead of the newest
GetPrompt_Head(previous_tokens, without_timestamps, prefix) ==
  LET p1 == IF previous_tokens # <<>>
            THEN <<sot_prev>> \o Slice(previous_tokens, 0, max_length \div 2 - 1)
            ELSE <<>>
      p2 == p1 \o sot_sequence
      p3 == IF without_timestamps THEN Append(p2, no_timestamps) ELSE p2
      prefix_tokens == IF IsNone(prefix) THEN <<>>
                       ELSE encode(<<" ">> \o strip(Val(prefix)))
      cut == IF Len(prefix_tokens) >= max_length \div 2
             THEN Slice(prefix_tokens, 0, max_length \div 2 - 1)
             ELSE prefix_tokens
  IN IF ~IsNone(prefix) /\ Val(prefix) # <<>> THEN p3 \o cut ELSE p3

GetPrompt(previous_tokens, without_timestamps, prefix) ==
  LET p1 == IF previous_tokens # <<>>
            THEN <<sot_prev>> \o LastN(previous_tokens, max_length \div 2 - 1)
            ELSE <<>>
      p2 == p1 \o sot_sequence
      p3 == IF without_timestamps THEN Append(p2, no_timestamps) ELSE p2
      prefix_tokens == IF IsNone(prefix) THEN <<>>
                       ELSE encode(<<" ">> \o strip(Val(prefix)))
      cut == IF Len(prefix_tokens) >= max_length \div 2
             THEN Slice(prefix_tokens, 0, max_length \div 2 - 1)
             ELSE prefix_tokens
  IN IF ~IsNone(prefix) /\ Val(prefix) # <<>> THEN p3 \o cut ELSE p3

\* generate_segments: the prompt of the window at the top of the loop
WindowPrompt(opts, toks, prs) ==
  GetPrompt(Slice(toks, prs, Len(toks)), opts.without_timestamps, opts.prefix)

----------------------------------------------------------------------------
(* generate_with_fallback: one attempt of the ladder *)

\* cum_log_prob / (seq_len + 1), as a rational, when seq_len **
\* length_penalty does not raise
AvgLogProb(score, seq_len, length_penalty) ==
  LET power == Pow(seq_len, length_penalty)
  IN [num |-> score * power.num, den |-> power.den * (seq_len + 1)]

\* len(zlib.compress(text_bytes)) of a text of at most 4 characters, which
\* zlib stores with 8 bytes around it, or of a longer run of one character
ZlibLength(text) ==
  CASE Len(text) <= 4 -> Len(text) + 8
    [] Len(text) > 4 /\ Len(text) <= 20 /\ \A i \in 1..Len(text) : text[i] = text[1]
       -> 11

\* len(text_bytes) / len(zlib.compress(text_bytes)), a rational in tenths
get_compression_ratio(text) ==
  [num |-> 10 * Len(text), den |-> ZlibLength(text)]

\* a gate that forgets the compression ratio
NeedsFallback_LogProbOnly(opts, compression_ratio, avg) ==
  /\ ~IsNone(opts.log_prob_threshold)
  /\ RatLt(avg, Val(opts.log_prob_threshold))

NeedsFallback(opts, compression_ratio, avg) ==
  \/ /\ ~IsNone(opts.compression_ratio_threshold)
     /\ RatGt(compression_ratio, Val(opts.compression_ratio_threshold))
  \/ /\ ~IsNone(opts.log_prob_threshold)
     /\ RatLt(avg, Val(opts.log_prob_threshold))

----------------------------------------------------------------------------
(* generate_segments: the no-speech gate *)

\* a gate without the log-probability override
ShouldSkip_NoOverride(opts, no_speech_prob, avg) ==
  /\ ~IsNone(opts.no_speech_threshold)
  /\ no_speech_prob > Val(opts.no_speech_threshold)

ShouldSkip(opts, no_speech_prob, avg) ==
  /\ ~IsNone(opts.no_speech_threshold)
  /\ no_speech_prob > Val(opts.no_speech_threshold)
  /\ ~(/\ ~IsNone(opts.log_prob_threshold)
       /\ RatGt(avg, Val(opts.log_prob_threshold)))

----------------------------------------------------------------------------
(* generate_segments: timestamp parsing.  Indexes are Python's, from 0.     *)

\* tokens[i] for a Python index 0 <= i < len(tokens)
At(tokens, i) == tokens[i + 1]

SingleTimestampEnding(tokens) ==
  /\ Len(tokens) >= 2
  /\ At(tokens, Len(tokens) - 2) < timestamp_begin
  /\ At(tokens, Len(tokens) - 1) >= timestamp_begin

\* whether index i of tokens is the second of two consecutive timestamps
IsConsecutive(tokens, i) ==
  /\ i > 0
  /\ At(tokens, i) >= timestamp_begin
  /\ At(tokens, i - 1) >= timestamp_begin

RECURSIVE ConsecutiveFrom(_, _)
ConsecutiveFrom(tokens, i) ==
  IF i >= Len(tokens) THEN <<>>
  ELSE IF IsConsecutive(tokens, i)
       THEN <<i>> \o ConsecutiveFrom(tokens, i + 1)
       ELSE ConsecutiveFrom(tokens, i + 1)

ConsecutiveTimestamps(tokens) == ConsecutiveFrom(tokens, 0)

\* slices that always end with len(tokens)
Slices_KeepTail(tokens) == Append(ConsecutiveTimestamps(tokens), Len(tokens))

Slices(tokens) ==
  IF SingleTimestampEnding(tokens)
  THEN Append(ConsecutiveTimestamps(tokens), Len(tokens))
  ELSE ConsecutiveTimestamps(tokens)

\* the value of last_slice before the k-th slice is taken
LastSlice(slices, k) == IF k = 1 THEN 0 ELSE slices[k - 1]

\* tokens[last_slice:current_slice] of the k-th slice
SlicedTokens(tokens, slices, k) == Slice(tokens, LastSlice(slices, k), slices[k])

\* sliced_tokens[0] and sliced_tokens[-1] raise IndexError on an empty chunk
RaisesIndexError(tokens, slices) ==
  \E k \in 1..Len(slices) : SlicedTokens(tokens, slices, k) = <<>>

\* the RawSegment of the k-th slice
RawSegment(tokens, slices, k, time_offset) ==
  LET sliced_tokens == SlicedTokens(tokens, slices, k)
      start_timestamp_position == sliced_tokens[1] - timestamp_begin
      end_timestamp_position == sliced_tokens[Len(sliced_tokens)] - timestamp_begin
  IN [ start |-> time_offset + start_timestamp_position * time_precision,
       end |-> time_offset + end_timestamp_position * time_precision,
       tokens |-> sliced_tokens ]

SlicedSegments(tokens, slices, time_offset) ==
  [k \in 1..Len(slices) |-> RawSegment(tokens, slices, k, time_offset)]

\* seek assigned instead of advanced
BoundarySeek_Assign(tokens, slices, seek0, segment_size) ==
  IF SingleTimestampEnding(tokens)
  THEN seek0 + segment_size
  ELSE LET last_slice == slices[Len(slices)]
           last_timestamp_position == At(tokens, last_slice - 1) - timestamp_begin
       IN last_timestamp_position * input_stride

\* seek always advanced by the whole window
BoundarySeek_WholeWindow(tokens, slices, seek0, segment_size) ==
  seek0 + segment_size

\* seek after a window whose output has timestamp boundaries
BoundarySeek(tokens, slices, seek0, segment_size) ==
  IF SingleTimestampEnding(tokens)
  THEN seek0 + segment_size
  ELSE LET last_slice == slices[Len(slices)]
           last_timestamp_position == At(tokens, last_slice - 1) - timestamp_begin
       IN seek0 + last_timestamp_position * input_stride

\* the single RawSegment of a window whose output has no boundary
WholeSegment(tokens, time_offset, segment_duration) ==
  LET timestamps == SelectSeq(tokens, IsTimestamp)
      duration ==
        IF Len(timestamps) > 0 /\ timestamps[Len(timestamps)] # timestamp_begin
        THEN (timestamps[Len(timestamps)] - timestamp_begin) * time_precision
        ELSE segment_duration
  IN [start |-> time_offset, end |-> time_offset + duration, tokens |-> tokens]

\* current_segments of a window that is not skipped
CurrentSegments(tokens, time_offset, segment_duration) ==
  IF Len(ConsecutiveTimestamps(tokens)) > 0
  THEN SlicedSegments(tokens, Slices(tokens), time_offset)
  ELSE <<WholeSegment(tokens, time_offset, segment_duration)>>

\* seek after a window that is not skipped
NextSeek(tokens, seek0, segment_size) ==
  IF Len(ConsecutiveTimestamps(tokens)) > 0
  THEN BoundarySeek(tokens, Slices(tokens), seek0, segment_size)
  ELSE seek0 + segment_size

\* if not options.condition_on_previous_text or temperature > 0.5
PromptResetSince(opts, temperature, toks, prs) ==
  IF ~opts.condition_on_previous_text \/ temperature > 5 THEN Len(toks) ELSE prs

\* a for loop that records in all_tokens only the segments it yields
RECURSIVE EmitFrom_SkipsHistory(_, _, _, _)
EmitFrom_SkipsHistory(k, segs, toks, o) ==
  IF k > Len(segs) THEN [all_tokens |-> toks, out |-> o, at |-> 0]
  ELSE LET text == decode(segs[k].tokens)
       IN IF strip(text) = <<>>
          THEN EmitFrom_SkipsHistory(k + 1, segs, toks, o)
          ELSE [ all_tokens |-> toks \o segs[k].tokens,
                 out |-> Append(o, [start |-> segs[k].start, end |-> segs[k].end,
                                    text |-> text]),
                 at |-> k ]

\* the for loop over current_segments from its k-th element, up to the next
\* yield (at = index of the segment yielded) or to its end (at = 0)
RECURSIVE EmitFrom(_, _, _, _)
EmitFrom(k, segs, toks, o) ==
  IF k > Len(segs) THEN [all_tokens |-> toks, out |-> o, at |-> 0]
  ELSE LET text == decode(segs[k].tokens)
       IN IF strip(text) = <<>>
          THEN EmitFrom(k + 1, segs, toks \o segs[k].tokens, o)
          ELSE [ all_tokens |-> toks \o segs[k].tokens,
                 out |-> Append(o, [start |-> segs[k].start, end |-> segs[k].end,
                                    text |-> text]),
                 at |-> k ]

----------------------------------------------------------------------------
(* State *)

VARIABLES
  pc,                  \* where the call is: "idle", "created" (generator not
                       \* started), "top" (the while test), "fallback" (inside
                       \* the temperature loop), "gate" (generate_with_fallback
                       \* returned), "yielded" (suspended at the yield),
                       \* "done" (StopIteration), "error" (an exception)
  options,             \* the TranscriptionOptions built by transcribe
  num_frames,          \* features.shape[-1]
  content_frames,
  seek,
  all_tokens,
  prompt_reset_since,
  prompt,              \* the prompt of the current window
  result,              \* generate_with_fallback: None or the last result
  avg_log_prob,        \* generate_with_fallback: None or a rational
  final_temperature,   \* generate_with_fallback: None or a temperature
  rung,                \* index of the next temperature of the ladder, from 1
  current_segments,
  at,                  \* index in current_segments of the segment yielded
  out,                 \* the Segments the consumer has received
  err,                 \* the exception raised, "" if none
  windows,             \* history: number of windows whose decoding started
  attempts,            \* history: the attempts of the current window
  generated,           \* history: None or what the last call of
                       \* self.model.generate of the current window returned
  best,                \* history: the highest avg_log_prob of the attempts of
                       \* a ladder that is still running
  last                 \* history: what the last processed window did

vars ==
  << pc, options, num_frames, content_frames, seek, all_tokens,
     prompt_reset_since, prompt, result, avg_log_prob, final_temperature, rung,
     current_segments, at, out, err, windows, attempts, generated, best, last >>

NoWindow ==
  [ kind |-> "none", seek0 |-> 0, segment_size |-> 0, from |-> 0, to |-> 0,
    prs0 |-> 0, out0 |-> 0, temperature |-> 0, silent |-> FALSE,
    segments |-> 0 ]

Init ==
  /\ pc = "idle"
  /\ options = NoOptions
  /\ num_frames = 0
  /\ content_frames = 0
  /\ seek = 0
  /\ all_tokens = <<>>
  /\ prompt_reset_since = 0
  /\ prompt = <<>>
  /\ result = None
  /\ avg_log_prob = None
  /\ final_temperature = None
  /\ rung = 1
  /\ current_segments = <<>>
  /\ at = 0
  /\ out = <<>>
  /\ err = ""
  /\ windows = 0
  /\ attempts = <<>>
  /\ generated = None
  /\ best = None
  /\ last = NoWindow

----------------------------------------------------------------------------
(* Actions *)

\* transcribe(): builds the options and returns the generator, whose body has
\* not started.
Transcribe ==
  /\ pc = "idle"
  /\ \E lp \in LengthPenalties, lpt \in LogProbThresholds,
        nst \in NoSpeechThresholds, crt \in CompressionRatioThresholds,
        cond \in BOOLEAN, temp \in TemperatureArgs, ip \in InitialPrompts,
        pre \in Prefixes, n \in FeatureFrames :
       /\ options' = TranscriptionOptions(lp, lpt, nst, crt, cond, temp, ip, pre, FALSE)
       /\ num_frames' = n
  /\ pc' = "created"
  /\ UNCHANGED << content_frames, seek, all_tokens,
                  prompt_reset_since, prompt,
                  result, avg_log_prob, final_temperature, rung,
                  current_segments, at, out, err, windows, attempts, generated, best, last >>

\* all_tokens after the initial prompt is encoded
InitialTokens(opts) ==
  IF IsNone(opts.initial_prompt) THEN <<>>
  ELSE encode(<<" ">> \o strip(Val(opts.initial_prompt)))

\* The consumer asks for the first Segment: the generator body runs up to the
\* while test.
Start ==
  /\ pc = "created"
  /\ content_frames' = num_frames - nb_max_frames
  /\ seek' = 0
  /\ all_tokens' = InitialTokens(options)
  /\ prompt_reset_since' = 0
  /\ pc' = "top"
  /\ UNCHANGED << options, num_frames, prompt, result, avg_log_prob,
                  final_temperature, rung, current_segments, at, out, err,
                  windows, attempts, generated, best, last >>

\* segment_size of the window at seek
SegmentSize(s, cf) == Min(nb_max_frames, cf - s)

\* The while test fails: the generator returns.
Finish ==
  /\ pc = "top"
  /\ ~(seek < content_frames)
  /\ pc' = "done"
  /\ UNCHANGED << options, num_frames, content_frames, seek, all_tokens,
                  prompt_reset_since, prompt, result, avg_log_prob,
                  final_temperature, rung, current_segments, at, out, err,
                  windows, attempts, generated, best, last >>

\* a while test that lets a window start at seek = content_frames
LoopHead_PastEnd ==
  /\ pc = "top"
  /\ seek <= content_frames
  /\ windows < MaxWindows
  /\ prompt' = WindowPrompt(options, all_tokens, prompt_reset_since)
  /\ result' = None
  /\ avg_log_prob' = None
  /\ final_temperature' = None
  /\ rung' = 1
  /\ attempts' = <<>>
  /\ generated' = None
  /\ best' = None
  /\ windows' = windows + 1
  /\ pc' = IF options.temperatures = <<>> THEN "gate" ELSE "fallback"
  /\ UNCHANGED << options, num_frames, content_frames, seek,
                  all_tokens, prompt_reset_since, current_segments, at, out, err,
                  last >>

\* The while test holds: the prompt is built and generate_with_fallback is
\* entered; with an empty ladder it returns at once.
LoopHead ==
  /\ pc = "top"
  /\ seek < content_frames
  /\ windows < MaxWindows
  /\ prompt' = WindowPrompt(options, all_tokens, prompt_reset_since)
  /\ result' = None
  /\ avg_log_prob' = None
  /\ final_temperature' = None
  /\ rung' = 1
  /\ attempts' = <<>>
  /\ generated' = None
  /\ best' = None
  /\ windows' = windows + 1
  /\ pc' = IF options.temperatures = <<>> THEN "gate" ELSE "fallback"
  /\ UNCHANGED << options, num_frames, content_frames, seek, all_tokens,
                  prompt_reset_since, current_segments, at, out, err, last >>

\* history: the quality gate of an attempt, as the options state it
GatePasses(opts, compression_ratio, avg) ==
  /\ ~(/\ ~IsNone(opts.compression_ratio_threshold)
       /\ RatGt(compression_ratio, Val(opts.compression_ratio_threshold)))
  /\ ~(/\ ~IsNone(opts.log_prob_threshold)
       /\ RatLt(avg, Val(opts.log_prob_threshold)))

\* One iteration of the temperature loop: one call of model.generate, whose
\* output is any (tokens, score, no_speech_prob), and the quality gate; the
\* iteration raises when seq_len ** length_penalty does.
AttemptFrom(outputs) ==
  /\ pc = "fallback"
  /\ \E tokens \in outputs, score \in Scores, nsp \in NoSpeechProbs :
       IF PowRaises(Len(tokens), options.length_penalty)
       THEN /\ pc' = "error"
            /\ err' = "ZeroDivisionError"
            /\ UNCHANGED << result, avg_log_prob, final_temperature, rung,
                            attempts, generated, best >>
       ELSE
       LET temperature == options.temperatures[rung]
           text == strip(decode(tokens))
           compression_ratio == get_compression_ratio(text)
           avg == AvgLogProb(score, Len(tokens), options.length_penalty)
           needs_fallback == NeedsFallback(options, compression_ratio, avg)
           returned == [ sequences_ids |-> tokens, score |-> score,
                         no_speech_prob |-> nsp ]
       IN /\ final_temperature' = Some(temperature)
          /\ result' = Some(returned)
          /\ avg_log_prob' = Some(avg)
          /\ generated' = Some(returned)
          /\ attempts' = Append(attempts,
                                [ temperature |-> temperature,
                                  passed |-> GatePasses(options, compression_ratio, avg),
                                  beaten |-> /\ ~IsNone(best)
                                             /\ RatGtRat(Val(best), avg) ])
          /\ best' = IF ~needs_fallback \/ rung = Len(options.temperatures)
                      THEN None
                      ELSE IF ~IsNone(best) /\ RatGtRat(Val(best), avg)
                           THEN best ELSE Some(avg)
          /\ IF ~needs_fallback \/ rung = Len(options.temperatures)
             THEN pc' = "gate" /\ rung' = rung
             ELSE pc' = "fallback" /\ rung' = rung + 1
          /\ err' = err
  /\ UNCHANGED << options, num_frames, content_frames, seek, all_tokens,
                  prompt_reset_since, prompt, current_segments, at, out,
                  windows, last >>

Attempt == AttemptFrom(Outputs)

\* total number of tokens of a sequence of RawSegments
RECURSIVE TokenCount(_)
TokenCount(segs) ==
  IF segs = <<>> THEN 0 ELSE Len(Head(segs).tokens) + TokenCount(Tail(segs))

\* which branch of the window processing a result takes
Branch(opts, r, avg) ==
  IF ShouldSkip(opts, r.no_speech_prob, avg) THEN "skip"
  ELSE IF Len(ConsecutiveTimestamps(r.sequences_ids)) = 0 THEN "whole"
  ELSE IF SingleTimestampEnding(r.sequences_ids) THEN "boundary_single"
  ELSE "boundary"

\* a skip that forgets to advance
SkipSeek_Stay(seek0, segment_size) == seek0

\* fast-forward to the next segment boundary
SkipSeek(seek0, segment_size) == seek0 + segment_size

\* result is None: result.no_speech_prob or result.sequences_ids raises.
ProcessNone ==
  /\ pc = "gate"
  /\ IsNone(result)
  /\ pc' = "error"
  /\ err' = "AttributeError"
  /\ UNCHANGED << options, num_frames, content_frames, seek, all_tokens,
                  prompt_reset_since, prompt, result, avg_log_prob,
                  final_temperature, rung, current_segments, at, out, windows,
                  attempts, generated, best, last >>

\* The rest of the iteration after generate_with_fallback returned a result:
\* the no-speech gate, the timestamp parsing, the new seek, the prompt reset,
\* and the for loop up to its first yield.
ProcessResult ==
  /\ pc = "gate"
  /\ ~IsNone(result)
  /\ LET r == Val(result)
         avg == Val(avg_log_prob)
         temperature == Val(final_temperature)
         tokens == r.sequences_ids
         time_offset == seek * time_per_frame
         segment_size == SegmentSize(seek, content_frames)
         segment_duration == segment_size * time_per_frame
         branch == Branch(options, r, avg)
         seen == [ kind |-> branch, seek0 |-> seek, segment_size |-> segment_size,
                   from |-> Len(all_tokens), to |-> Len(all_tokens),
                   prs0 |-> prompt_reset_since, out0 |-> Len(out),
                   temperature |-> temperature,
                   silent |-> /\ ~IsNone(options.no_speech_threshold)
                              /\ r.no_speech_prob > Val(options.no_speech_threshold),
                   segments |-> 0 ]
     IN IF branch = "skip"
        THEN /\ seek' = SkipSeek(seek, segment_size)
             /\ pc' = "top"
             /\ last' = seen
             /\ UNCHANGED << all_tokens, prompt_reset_since, current_segments,
                             at, out, err >>
        ELSE IF /\ Len(ConsecutiveTimestamps(tokens)) > 0
                /\ RaisesIndexError(tokens, Slices(tokens))
        THEN /\ pc' = "error"
             /\ err' = "IndexError"
             /\ UNCHANGED << seek, all_tokens, prompt_reset_since,
                             current_segments, at, out, last >>
        ELSE LET segs == CurrentSegments(tokens, time_offset, segment_duration)
                 run == EmitFrom(1, segs, all_tokens, out)
             IN /\ seek' = NextSeek(tokens, seek, segment_size)
                /\ prompt_reset_since' =
                     PromptResetSince(options, temperature, all_tokens,
                                      prompt_reset_since)
                /\ all_tokens' = run.all_tokens
                /\ out' = run.out
                /\ at' = run.at
                /\ current_segments' = IF run.at = 0 THEN <<>> ELSE segs
                /\ pc' = IF run.at = 0 THEN "top" ELSE "yielded"
                /\ last' = [seen EXCEPT !.to = Len(all_tokens) + TokenCount(segs),
                                        !.segments = Len(segs)]
                /\ err' = err
  /\ result' = None
  /\ avg_log_prob' = None
  /\ final_temperature' = None
  /\ attempts' = <<>>
  /\ generated' = None
  /\ UNCHANGED << options, num_frames, content_frames, prompt, rung, windows,
                  best >>

\* The consumer asks for the next Segment: the for loop goes on after the
\* yield, up to its next yield or to the while test.
Resume ==
  /\ pc = "yielded"
  /\ LET run == EmitFrom(at + 1, current_segments, all_tokens, out)
     IN /\ all_tokens' = run.all_tokens
        /\ out' = run.out
        /\ at' = run.at
        /\ current_segments' = IF run.at = 0 THEN <<>> ELSE current_segments
        /\ pc' = IF run.at = 0 THEN "top" ELSE "yielded"
  /\ UNCHANGED << options, num_frames, content_frames, seek, prompt_reset_since,
                  prompt, result, avg_log_prob, final_temperature, rung, err,
                  windows, attempts, generated, best, last >>

Next ==
  \/ Transcribe
  \/ Start
  \/ Finish
  \/ LoopHead
  \/ Attempt
  \/ ProcessNone
  \/ ProcessResult
  \/ Resume

Spec == Init /\ [][Next]_vars

----------------------------------------------------------------------------
(* One window on any decoder output: the call is inside generate_with_fallback *)
(* for its first window, or for the window at seek = 2 that follows a first    *)
(* window whose output was <<0.02, 0.02>>.  The ladder has one temperature.    *)

AttemptWide == AttemptFrom(WideOutputs)

WindowOptions ==
  { TranscriptionOptions(lp, lpt, nst, Some(24), TRUE, temp, None, None, FALSE) :
      lp \in LengthPenalties, lpt \in LogProbThresholds,
      nst \in NoSpeechThresholds,
      temp \in {t \in TemperatureArgs : Len(Temperatures(t)) = 1} }

InitWindow ==
  \E opts \in WindowOptions, n \in {nb_max_frames + 3, nb_max_frames + 6},
     s \in {0, input_stride} :
    /\ pc = "fallback"
    /\ options = opts
    /\ num_frames = n
    /\ content_frames = n - nb_max_frames
    /\ seek = s
    /\ all_tokens = IF s = 0 THEN <<>> ELSE <<timestamp_begin + 1>>
    /\ prompt_reset_since = 0
    /\ prompt = WindowPrompt(opts, all_tokens, 0)
    /\ result = None
    /\ avg_log_prob = None
    /\ final_temperature = None
    /\ rung = 1
    /\ current_segments = <<>>
    /\ at = 0
    /\ out = <<>>
    /\ err = ""
    /\ windows = IF s = 0 THEN 1 ELSE 2
    /\ attempts = <<>>
    /\ generated = None
    /\ best = None
    /\ last = IF s = 0 THEN NoWindow
              ELSE [ kind |-> "boundary", seek0 |-> 0,
                     segment_size |-> SegmentSize(0, n - nb_max_frames),
                     from |-> 0, to |-> 1, prs0 |-> 0, out0 |-> 0,
                     temperature |-> opts.temperatures[1], silent |-> FALSE,
                     segments |-> 1 ]

NextWindow ==
  \/ AttemptWide
  \/ ProcessResult
  \/ Resume

SpecWindow == InitWindow /\ [][NextWindow]_vars

----------------------------------------------------------------------------
(* get_prompt on any context and prefix: the call is at the while test of a   *)
(* window, with any history and any prefix option, with and without           *)
(* timestamps.                                                                *)

\* histories longer than the context a prompt keeps
PromptContexts == SeqsUpTo({word, timestamp_begin}, max_length \div 2 + 1)

\* prefix options whose tokens are fewer and more than a prompt keeps, and one
\* with whitespace around it
PromptPrefixes ==
  {None, Some(<<" ", "c", " ">>)}
  \cup {Some(text) : text \in SeqsUpTo({"b", "c"}, max_length \div 2)}

InitPrompt ==
  \E context \in PromptContexts, pre \in PromptPrefixes, wt \in BOOLEAN,
     prs \in {0, 1} :
    /\ pc = "top"
    /\ options = TranscriptionOptions(1, None, None, None, TRUE,
                                      [islist |-> FALSE, scalar |-> 0, list |-> <<>>],
                                      None, pre, wt)
    /\ num_frames = nb_max_frames + 1
    /\ content_frames = 1
    /\ seek = 0
    /\ all_tokens = context
    /\ prompt_reset_since = Min(prs, Len(context))
    /\ prompt = <<>>
    /\ result = None
    /\ avg_log_prob = None
    /\ final_temperature = None
    /\ rung = 1
    /\ current_segments = <<>>
    /\ at = 0
    /\ out = <<>>
    /\ err = ""
    /\ windows = 0
    /\ attempts = <<>>
    /\ generated = None
    /\ best = None
    /\ last = NoWindow

NextPrompt == LoopHead

SpecPrompt == InitPrompt /\ [][NextPrompt]_vars

----------------------------------------------------------------------------
(* Claims *)

\* a window's processing step: generate_with_fallback has returned a result
AtGate == pc = "gate" /\ ~IsNone(result)

\* the prompt of the current window has been built
PromptBuilt == pc \in {"fallback", "gate"}

\* the last processed window was not skipped and raised nothing
LastEmitted == last.kind \in {"whole", "boundary", "boundary_single"}

BothThresholds ==
  ~IsNone(options.no_speech_threshold) /\ ~IsNone(options.log_prob_threshold)

\* C1: every iteration of the loop that raises nothing increases seek by at
\* least one frame.
C1_SeekStrictlyIncreases ==
  [][(AtGate /\ pc' # "error") => seek' >= seek + 1]_vars

\* C2: when condition_on_previous_text is false or the last window's
\* temperature exceeded 0.5, no token that window appended to all_tokens lies
\* in the context all_tokens[prompt_reset_since:] of the next window's prompt.
C2_ResetWindowNotInContext ==
  (/\ PromptBuilt
   /\ LastEmitted
   /\ ~options.condition_on_previous_text \/ last.temperature > 5)
  => (last.to = last.from \/ prompt_reset_since >= last.to)

\* C3: a window skipped by the no-speech gate emits no Segment, leaves
\* all_tokens and prompt_reset_since unchanged and advances seek by exactly
\* segment_size = min(nb_max_frames, content_frames - seek).
C3_SkipLeavesHistory ==
  [][(AtGate /\ last'.kind = "skip")
     => /\ seek' = seek + Min(nb_max_frames, content_frames - seek)
        /\ all_tokens' = all_tokens
        /\ prompt_reset_since' = prompt_reset_since
        /\ out' = out
        /\ pc' = "top"]_vars

\* a window was skipped although its temperature exceeded 0.5 and
\* condition_on_previous_text is false, with history to preserve
C3_Witness ==
  /\ pc = "top"
  /\ last.kind = "skip"
  /\ last.temperature > 5
  /\ ~options.condition_on_previous_text
  /\ seek = last.seek0 + last.segment_size
  /\ Len(all_tokens) > 0

\* C4: a window whose avg_log_prob is above a configured log_prob_threshold is
\* not skipped, whatever its no_speech_prob; and without a no_speech_threshold
\* no window is skipped.
C4_NoSpeechOverride ==
  [][(/\ AtGate
      /\ \/ IsNone(options.no_speech_threshold)
         \/ /\ ~IsNone(options.log_prob_threshold)
            /\ RatGt(Val(avg_log_prob), Val(options.log_prob_threshold)))
     => (pc' # "error" /\ last'.kind # "skip")]_vars

\* a window above the no-speech threshold was processed, not skipped, because
\* of the override
C4_Witness ==
  /\ pc \in {"top", "yielded"}
  /\ LastEmitted
  /\ last.silent
  /\ ~IsNone(options.log_prob_threshold)

\* C5: the ladder is tried in order, one model call per temperature; it stops
\* at the first attempt that passes the gate and otherwise runs to its end;
\* the result, avg_log_prob and temperature returned are all those of the
\* last attempt executed: the result is what that call of the model returned
\* and avg_log_prob is computed from that result, whatever an earlier attempt
\* scored.
C5_FallbackLadder ==
  LET temps == options.temperatures
      n == Len(attempts)
  IN /\ pc = "fallback" =>
          /\ rung = n + 1
          /\ n < Len(temps)
          /\ \A i \in 1..n : ~attempts[i].passed
     /\ (pc = "gate" /\ temps # <<>>) =>
          /\ n \in 1..Len(temps)
          /\ \A i \in 1..n : attempts[i].temperature = temps[i]
          /\ \A i \in 1..(n - 1) : ~attempts[i].passed
          /\ attempts[n].passed \/ n = Len(temps)
          /\ final_temperature = Some(temps[n])
          /\ ~IsNone(generated)
          /\ result = generated
          /\ ~IsNone(avg_log_prob)
          /\ LET r == Val(generated)
                 seq_len == Len(r.sequences_ids)
                 avg == Val(avg_log_prob)
             IN /\ avg.den > 0
                /\ IF options.length_penalty >= 0
                   THEN avg.num * (seq_len + 1) =
                          r.score * Pow(seq_len, options.length_penalty).num * avg.den
                   ELSE avg.num * (seq_len + 1)
                          * Pow(seq_len, options.length_penalty).den =
                          r.score * avg.den

\* the ladder was exhausted and returned its last attempt, whose avg_log_prob
\* is lower than that of the first attempt and is not above log_prob_threshold
C5_Witness ==
  /\ pc = "gate"
  /\ Len(attempts) = 2
  /\ ~attempts[2].passed
  /\ attempts[2].beaten
  /\ ~IsNone(options.log_prob_threshold)
  /\ ~RatGt(Val(avg_log_prob), Val(options.log_prob_threshold))

\* whether a prompt ends with the tokens of the prefix option
EndsWithPrefix(p) ==
  LET prefix_tokens == encode(<<" ">> \o Val(options.prefix))
  IN /\ Len(p) >= Len(prefix_tokens)
     /\ SubSeq(p, Len(p) - Len(prefix_tokens) + 1, Len(p)) = prefix_tokens

\* C6: the prefix tokens are in the prompt of the first window and in the
\* prompt of no later window.
C6_PrefixFirstWindowOnly ==
  (PromptBuilt /\ ~IsNone(options.prefix))
  => (EndsWithPrefix(prompt) <=> windows = 1)

\* C7: with both thresholds configured a window is skipped only if its
\* no_speech_prob is above no_speech_threshold and its avg_log_prob is below
\* log_prob_threshold; a window whose avg_log_prob equals the threshold is not
\* skipped.
C7_SkipOnlyBelowThreshold ==
  [][(AtGate /\ BothThresholds /\ last'.kind = "skip")
     => /\ Val(result).no_speech_prob > Val(options.no_speech_threshold)
        /\ RatLt(Val(avg_log_prob), Val(options.log_prob_threshold))]_vars

\* C8: an empty temperature ladder is reported before the window loop starts:
\* when the error is raised no window has been decoded.
C8_EmptyLadderFailsFast ==
  pc = "error" => windows = 0

\* C9: with a non-empty ladder a window never raises: every chunk cut at the
\* timestamp boundaries is non-empty, and a processed window is a skip or has
\* at least one RawSegment.
C9_WindowNeverRaises ==
  /\ options.temperatures # <<>> => (pc # "error" /\ err = "")
  /\ AtGate =>
       LET tokens == Val(result).sequences_ids
           slices == Slices(tokens)
       IN Len(ConsecutiveTimestamps(tokens)) > 0 =>
            \A k \in 1..Len(slices) :
              LET first == IF k = 1 THEN 0 ELSE slices[k - 1]
              IN first < slices[k] /\ slices[k] <= Len(tokens)
  /\ LastEmitted => last.segments >= 1

\* C10: seek never decreases.
C10_SeekNonDecreasing ==
  [][seek' >= seek]_vars

\* a window at seek > 0 whose output has a boundary and no single timestamp
\* at the end has been processed
C10_Witness ==
  /\ pc \in {"top", "yielded"}
  /\ last.kind = "boundary"
  /\ last.seek0 > 0
  /\ seek >= last.seek0

\* C11: the generator suspends only between windows: at every yield all_tokens
\* holds none or all of the tokens of the current window's RawSegments.
C11_SuspendsBetweenWindows ==
  pc = "yielded" =>
    (Len(all_tokens) = last.from \/ Len(all_tokens) = last.to)

\* the window being processed was neither skipped nor raised
Processed == AtGate /\ pc' # "error" /\ last'.kind # "skip"

\* the Python indexes i > 0 at which tokens[i - 1] and tokens[i] are both
\* timestamps
Cuts(tokens) ==
  { i \in 1..(Len(tokens) - 1) :
      IsTimestamp(tokens[i]) /\ IsTimestamp(tokens[i + 1]) }

\* the last of a non-empty set of indexes
LastOf(S) == CHOOSE i \in S : \A j \in S : j <= i

\* a text token and then a timestamp end the output
EndsWithSingleTimestamp(tokens) ==
  /\ Len(tokens) >= 2
  /\ ~IsTimestamp(tokens[Len(tokens) - 1])
  /\ IsTimestamp(tokens[Len(tokens)])

\* the tokens of a sequence of RawSegments, in order
RECURSIVE Flatten(_)
Flatten(segs) ==
  IF segs = <<>> THEN <<>> ELSE Head(segs).tokens \o Flatten(Tail(segs))

\* C14: an output with a consecutive timestamp pair is cut at every such pair
\* (and at its end iff it ends with a single timestamp), one RawSegment per
\* cut in order; the first and last tokens of every chunk are timestamps, its
\* start and end are time_offset + (first/last token - timestamp_begin) *
\* time_precision, and no RawSegment starts before time_offset.
C14_BoundaryChunks ==
  [][(Processed /\ pc' = "yielded" /\ Cuts(Val(result).sequences_ids) # {})
     => LET tokens == Val(result).sequences_ids
            time_offset == seek * time_per_frame
            segs == current_segments'
            ends == Cuts(tokens) \cup
                    (IF EndsWithSingleTimestamp(tokens) THEN {Len(tokens)} ELSE {})
        IN /\ Len(segs) = Cardinality(ends)
           /\ Flatten(segs) = SubSeq(tokens, 1, LastOf(ends))
           /\ \A k \in 1..Len(segs) :
                LET chunk == segs[k].tokens
                    first == chunk[1]
                    final == chunk[Len(chunk)]
                IN /\ Len(Flatten(SubSeq(segs, 1, k))) \in ends
                   /\ IsTimestamp(first)
                   /\ IsTimestamp(final)
                   /\ segs[k].start =
                        time_offset + (first - timestamp_begin) * time_precision
                   /\ segs[k].end =
                        time_offset + (final - timestamp_begin) * time_precision
                   /\ segs[k].start >= time_offset]_vars

\* C15: in the timestamp-boundary branch seek advances by segment_size when
\* the output ends with a single timestamp, and otherwise by (last token of
\* the last chunk - timestamp_begin) * input_stride, so that the next window's
\* time_offset is the end time of the last RawSegment and the tokens after the
\* last boundary are left to the next window.
C15_BoundarySeek ==
  [][(Processed /\ Cuts(Val(result).sequences_ids) # {})
     => LET tokens == Val(result).sequences_ids
            segment_size == Min(nb_max_frames, content_frames - seek)
            last_cut == LastOf(Cuts(tokens))
            last_token == tokens[last_cut]
        IN IF EndsWithSingleTimestamp(tokens)
           THEN seek' = seek + segment_size
           ELSE /\ seek' = seek + (last_token - timestamp_begin) * input_stride
                /\ time_precision = input_stride * time_per_frame
                /\ seek' * time_per_frame =
                     seek * time_per_frame
                     + (last_token - timestamp_begin) * time_precision
                /\ pc' = "yielded" =>
                     /\ seek' * time_per_frame =
                          current_segments'[Len(current_segments')].end
                     /\ Len(Flatten(current_segments')) = last_cut
                /\ Len(all_tokens') <= Len(all_tokens) + last_cut]_vars

\* a window was cut at a boundary before the end of its frames: seek advanced
\* to the last timestamp, by less than segment_size
C15_Witness ==
  /\ pc = "yielded"
  /\ last.kind = "boundary"
  /\ seek = last.seek0 + input_stride
  /\ last.segment_size > input_stride
  /\ current_segments[Len(current_segments)].end = seek * time_per_frame

\* C16: an output without a consecutive timestamp pair gives one RawSegment
\* with all its tokens, starting at time_offset, and seek advances by
\* segment_size; its duration is segment_duration unless the output contains a
\* timestamp other than timestamp_begin, and then it is that timestamp's
\* offset * time_precision.
C16_WholeWindowSegment ==
  [][(Processed /\ Cuts(Val(result).sequences_ids) = {})
     => LET tokens == Val(result).sequences_ids
            time_offset == seek * time_per_frame
            segment_size == Min(nb_max_frames, content_frames - seek)
            segment_duration == segment_size * time_per_frame
            nonzero == { i \in 1..Len(tokens) : tokens[i] > timestamp_begin }
        IN /\ seek' = seek + segment_size
           /\ all_tokens' = all_tokens \o tokens
           /\ pc' = "yielded" =>
                /\ Len(current_segments') = 1
                /\ current_segments'[1].tokens = tokens
                /\ current_segments'[1].start = time_offset
                /\ LET duration ==
                         current_segments'[1].end - current_segments'[1].start
                   IN IF nonzero = {}
                      THEN duration = segment_duration
                      ELSE \E i \in nonzero :
                             duration = (tokens[i] - timestamp_begin) * time_precision]_vars

\* the Segments of the RawSegments whose text is not empty after trimming
RECURSIVE Kept(_)
Kept(segs) ==
  IF segs = <<>> THEN <<>>
  ELSE LET text == decode(Head(segs).tokens)
           rest == Kept(Tail(segs))
       IN IF strip(text) = <<>> THEN rest
          ELSE <<[start |-> Head(segs).start, end |-> Head(segs).end,
                  text |-> text]>> \o rest

\* C17: the RawSegments of a window are processed in chunk order: at a yield
\* all_tokens holds the tokens of every RawSegment up to the one yielded,
\* emitted or not, and the stream holds a Segment for exactly those whose
\* trimmed text is not empty, in order, with their start and end; when the
\* window is finished all_tokens holds the tokens of all its RawSegments.
C17_SegmentsInChunkOrder ==
  /\ pc = "yielded" =>
       LET handled == SubSeq(current_segments, 1, at)
       IN /\ at \in 1..Len(current_segments)
          /\ all_tokens = SubSeq(all_tokens, 1, last.from) \o Flatten(handled)
          /\ out = SubSeq(out, 1, last.out0) \o Kept(handled)
          /\ Kept(<<current_segments[at]>>) # <<>>
  /\ (pc = "top" /\ LastEmitted) => Len(all_tokens) = last.to

\* the first RawSegment of a window had a blank text: its tokens are in
\* all_tokens and the only Segment of the window is the second's
C17_Witness ==
  /\ pc = "yielded"
  /\ at = 2
  /\ strip(decode(current_segments[1].tokens)) = <<>>
  /\ decode(current_segments[1].tokens) # <<>>
  /\ Len(out) = last.out0 + 1
  /\ Len(all_tokens) = last.from + Len(Flatten(current_segments))

\* C18: the prompt is [sot_prev + context] + sot_sequence + [no_timestamps] +
\* [prefix tokens]: sot_prev and the context are there iff the context is not
\* empty, the context part is the last min(len(context), max_length // 2 - 1)
\* tokens of the context in their order, the prefix part is the first
\* min(len(prefix_tokens), max_length // 2 - 1) prefix tokens; building the
\* prompt leaves the history as it was.
C18_PromptShape ==
  [][(pc = "top" /\ pc' \in {"fallback", "gate"})
     => LET context == SubSeq(all_tokens, prompt_reset_since + 1, Len(all_tokens))
            room == max_length \div 2 - 1
            n == Min(Len(context), room)
            kept == [i \in 1..n |-> context[Len(context) - n + i]]
            given == ~IsNone(options.prefix) /\ Val(options.prefix) # <<>>
            prefix_tokens ==
              IF given THEN encode(<<" ">> \o strip(Val(options.prefix))) ELSE <<>>
            m == Min(Len(prefix_tokens), room)
        IN /\ prompt' =
                (IF context # <<>> THEN <<sot_prev>> \o kept ELSE <<>>)
                \o sot_sequence
                \o (IF options.without_timestamps THEN <<no_timestamps>> ELSE <<>>)
                \o [i \in 1..m |-> prefix_tokens[i]]
           /\ all_tokens' = all_tokens
           /\ prompt_reset_since' = prompt_reset_since]_vars

\* a prompt built from a context and a prefix that were both cut
C18_Witness ==
  /\ pc = "fallback"
  /\ options.without_timestamps
  /\ Len(all_tokens) - prompt_reset_since > max_length \div 2 - 1
  /\ all_tokens[prompt_reset_since + 1] # all_tokens[Len(all_tokens)]
  /\ ~IsNone(options.prefix)
  /\ Len(Val(options.prefix)) >= max_length \div 2
  /\ Len(prompt) = 2 * (max_length \div 2 - 1) + 3

\* C19: all_tokens only grows at its end, prompt_reset_since never decreases
\* and stays between 0 and len(all_tokens), and a window whose output has a
\* boundary and no single timestamp at its end appends the tokens up to its
\* last boundary and none of those after it.
C19_HistoryAppendOnly ==
  [][/\ Len(all_tokens') >= Len(all_tokens)
     /\ SubSeq(all_tokens', 1, Len(all_tokens)) = all_tokens
     /\ prompt_reset_since' >= prompt_reset_since
     /\ 0 <= prompt_reset_since'
     /\ prompt_reset_since' <= Len(all_tokens')
     /\ (/\ Processed
         /\ Cuts(Val(result).sequences_ids) # {}
         /\ ~EndsWithSingleTimestamp(Val(result).sequences_ids))
        => LET tokens == Val(result).sequences_ids
               last_cut == LastOf(Cuts(tokens))
               added == SubSeq(all_tokens', Len(all_tokens) + 1, Len(all_tokens'))
           IN /\ Len(added) <= last_cut
              /\ added = SubSeq(tokens, 1, Len(added))
              /\ pc' = "top" => Len(added) = last_cut
              /\ pc' = "yielded" =>
                   Flatten(current_segments') = SubSeq(tokens, 1, last_cut)
     /\ pc = "yielded"
        => LET window == Flatten(current_segments)
               added == SubSeq(all_tokens', last.from + 1, Len(all_tokens'))
           IN /\ Len(added) <= Len(window)
              /\ added = SubSeq(window, 1, Len(added))
              /\ pc' = "top" => added = window]_vars

\* after a prompt reset over a non-empty history, a window appended the three
\* tokens before its last boundary and left out the tokens after it
C19_Witness ==
  /\ pc = "top"
  /\ last.kind = "boundary"
  /\ last.from > 0
  /\ prompt_reset_since = last.from
  /\ Len(all_tokens) = last.from + 3
  /\ all_tokens[Len(all_tokens)] = timestamp_begin + 1

\* the generator body has started: its local variables exist
Running == pc \notin {"idle", "created"}

\* the step is a call of model.generate
Decoding == pc = "fallback" /\ ~IsNone(result')

\* the step puts a Segment in the stream
Emitting == Len(out') > Len(out)

\* the window of a decode call: 0 <= seek < content_frames and
\* 1 <= segment_size <= nb_max_frames
WindowInContent ==
  /\ Decoding =>
       /\ 0 <= seek
       /\ seek < content_frames
  /\ (AtGate /\ pc' # "error") =>
       /\ last'.segment_size = Min(nb_max_frames, content_frames - seek)
       /\ 1 <= last'.segment_size
       /\ last'.segment_size <= nb_max_frames

\* C20 as stated: every decode call has 0 <= seek < content_frames and
\* 1 <= segment_size <= nb_max_frames; with content_frames <= 0 there is no
\* decode call and no Segment; once seek >= content_frames there is no further
\* decode call and no further Segment.
C20_NothingPastContent ==
  [][/\ WindowInContent
     /\ (Running /\ content_frames <= 0) => (~Decoding /\ ~Emitting)
     /\ (Running /\ seek >= content_frames) => (~Decoding /\ ~Emitting)]_vars

\* C20 amended: every decode call has 0 <= seek < content_frames and
\* 1 <= segment_size <= nb_max_frames; with content_frames <= 0 there is no
\* decode call and no Segment; once seek >= content_frames no window is started
\* and no decode call is made, and the only Segments still emitted are the
\* remaining ones of the window that advanced seek, at a resumption of the
\* generator.
C20_NoDecodePastContent ==
  [][/\ WindowInContent
     /\ (Running /\ content_frames <= 0) => (~Decoding /\ ~Emitting)
     /\ (Running /\ seek >= content_frames) =>
          /\ ~Decoding
          /\ windows' = windows
          /\ seek' = seek
          /\ Emitting => (pc = "yielded" /\ at < Len(current_segments))]_vars

\* the last window advanced seek to content_frames and the generator is
\* suspended with a RawSegment of that window still to emit
C20_Witness ==
  /\ pc = "yielded"
  /\ seek >= content_frames
  /\ windows = 2
  /\ at < Len(current_segments)
  /\ Kept(SubSeq(current_segments, at + 1, Len(current_segments))) # <<>>

====
